---------------------------- MODULE Spec2Model ----------------------------
(***************************************************************************)
(* Cloud candidates of ibus-libpinyin (src/src/PYPCloudCandidates.cc):     *)
(* the debounce timer, the single asynchronous request, the response       *)
(* parsers, the merge of a response into the cached candidates, and the    *)
(* selection of a cloud candidate.                                         *)
(*                                                                         *)
(* Strings are sequences of characters (each a one-element TLA+ string);   *)
(* the glyphs of the source, which are not ASCII, are spelled by a name.   *)
(* Every handler is one action; the handlers call each other exactly as    *)
(* the source does (a fired timer issues the request, which refreshes the  *)
(* editor, which runs the trigger decision again).                         *)
(***************************************************************************)
EXTENDS Naturals, Sequences, FiniteSets, TLC

(* ------------------------------ bounds -------------------------------- *)

\* How many timers g_timeout_add_full may create in one run.
MaxTimers == 3

\* The configured number of cloud candidates, cloudCandidatesNumber ().
CloudCandidatesNumber == 2

\* The most words a payload handed to a parser alone carries.
MaxWords == 2

\* How many times cloudSyncRequest may be called in one run.
MaxSyncRequests == 1

(* ------------------------- program constants -------------------------- *)

\* enum CandidateResponseParserError
PARSER_NOERR == 0
PARSER_INVALID_DATA == 1
PARSER_BAD_FORMAT == 2
PARSER_NO_CANDIDATE == 3
PARSER_NETWORK_ERROR == 4

\* The capacity of request_str and of annotation, without the final NUL.
MAX_PINYIN_LEN == 64

\* The least number of code points of the best candidate that triggers a lookup.
CLOUD_MINIMUM_UTF8_TRIGGER_LENGTH == 2

\* The least number of bytes of the raw text for which the table is refreshed.
CLOUD_MINIMUM_TRIGGER_LENGTH == 2

CANDIDATE_CLOUD_PREFIX == <<"cloud">>

CANDIDATE_PENDING_TEXT_WITHOUT_PREFIX == <<"[", "clock", "]">>
CANDIDATE_LOADING_TEXT_WITHOUT_PREFIX == <<".", ".", ".">>
CANDIDATE_NO_CANDIDATE_TEXT_WITHOUT_PREFIX == <<"[", "no", "]">>
CANDIDATE_INVALID_DATA_TEXT_WITHOUT_PREFIX == <<"[", "x", "]">>
CANDIDATE_BAD_FORMAT_TEXT_WITHOUT_PREFIX == <<"[", "?", "]">>

CANDIDATE_PENDING_TEXT == CANDIDATE_CLOUD_PREFIX \o CANDIDATE_PENDING_TEXT_WITHOUT_PREFIX
CANDIDATE_LOADING_TEXT == CANDIDATE_CLOUD_PREFIX \o CANDIDATE_LOADING_TEXT_WITHOUT_PREFIX
CANDIDATE_NO_CANDIDATE_TEXT == CANDIDATE_CLOUD_PREFIX \o CANDIDATE_NO_CANDIDATE_TEXT_WITHOUT_PREFIX
CANDIDATE_INVALID_DATA_TEXT == CANDIDATE_CLOUD_PREFIX \o CANDIDATE_INVALID_DATA_TEXT_WITHOUT_PREFIX
CANDIDATE_BAD_FORMAT_TEXT == CANDIDATE_CLOUD_PREFIX \o CANDIDATE_BAD_FORMAT_TEXT_WITHOUT_PREFIX

\* The candidate types the source compares against.
CANDIDATE_NBEST_MATCH == "CANDIDATE_NBEST_MATCH"
CANDIDATE_NORMAL == "CANDIDATE_NORMAL"
CANDIDATE_CLOUD_INPUT == "CANDIDATE_CLOUD_INPUT"
CandidateTypes == {CANDIDATE_NBEST_MATCH, CANDIDATE_NORMAL, CANDIDATE_CLOUD_INPUT}

\* The two providers of cloudInputSource ().
BAIDU == "BAIDU"
GOOGLE == "GOOGLE"

\* The bits selectCandidate returns.
SELECT_CANDIDATE_ALREADY_HANDLED == {"ALREADY_HANDLED"}
SELECT_CANDIDATE_COMMIT == {"COMMIT"}
SELECT_CANDIDATE_MODIFY_IN_PLACE == {"MODIFY_IN_PLACE"}

\* A null pointer (no annotation, no stream).
NULL == <<"NULL">>

(* ------------------------------ strings ------------------------------- *)

Min(a, b) == IF a < b THEN a ELSE b

\* strncpy (dst, src, n); dst[n] = '\0': the first n bytes of src.
Strncpy(src, n) == SubSeq(src, 1, Min(Len(src), n))

\* g_strjoinv ("", g_strsplit (s, "'", -1)): s without its quotes.
NotQuote(c) == c # "'"
StripQuotes(s) == SelectSeq(s, NotQuote)

EnhancedCandidate(type, id, text) ==
    [m_candidate_type |-> type, m_candidate_id |-> id, m_display_string |-> text]


(* ------------------------- JSON (json-glib) --------------------------- *)

\* A JsonNode: its kind, its string (a string value), its elements (an array,
\* or the member values of an object) and its member names (an object).
JsonNode(k, s, a, n) == [k |-> k, s |-> s, a |-> a, n |-> n]
JString(s) == JsonNode("string", s, <<>>, <<>>)
JNumber == JsonNode("number", <<>>, <<>>, <<>>)
JArray(a) == JsonNode("array", <<>>, a, <<>>)
JObject(n, a) == JsonNode("object", <<>>, a, n)

\* The null JsonArray pointer the accessors return on a failed precondition.
NoNode == JsonNode("nullptr", <<>>, <<>>, <<>>)

\* json_array_get_length: 0 for a null array.
json_array_get_length(array) == IF array.k = "array" THEN Len(array.a) ELSE 0

\* json_array_get_string_element: NULL unless the element exists and holds a string.
json_array_get_string_element(array, index) ==
    IF array.k # "array" \/ index >= Len(array.a) THEN NULL
    ELSE IF array.a[index + 1].k = "string" THEN array.a[index + 1].s
    ELSE NULL

\* json_array_get_array_element: null unless the element exists and holds an array.
json_array_get_array_element(array, index) ==
    IF array.k # "array" \/ index >= Len(array.a) THEN NoNode
    ELSE IF array.a[index + 1].k = "array" THEN array.a[index + 1]
    ELSE NoNode

json_object_has_member(object, name) ==
    \E i \in 1..Len(object.n) : object.n[i] = name

json_object_get_member(object, name) ==
    object.a[CHOOSE i \in 1..Len(object.n) : object.n[i] = name]

json_object_get_string_member(object, name) ==
    IF json_object_get_member(object, name).k = "string"
    THEN json_object_get_member(object, name).s
    ELSE NULL

json_object_get_array_member(object, name) ==
    IF json_object_get_member(object, name).k = "array"
    THEN json_object_get_member(object, name)
    ELSE NoNode

(* ------------------------ the response parsers ------------------------ *)

\* A parser instance: m_annotation (NULL or a string), whether the memory
\* m_annotation points to has been freed since, and m_candidates.
ParserState(annotation, dangling, candidates) ==
    [m_annotation |-> annotation, dangling |-> dangling, m_candidates |-> candidates]

\* CloudCandidatesResponseParser (): m_annotation (NULL), no candidates.
NewParser == ParserState(NULL, FALSE, <<>>)

\* What a parse leaves: the code it returns and the parser after it.
ParseResult(ret, parser) == [ended |-> FALSE, ret |-> ret, parser |-> parser]

\* A parse that does not return: the process is terminated inside it.
ParseEnds(parser) == [ended |-> TRUE, parser |-> parser]

\* The candidate strings of google_candidate_array, in order.
GoogleCandidates(google_candidate_array) ==
    [i \in 1..json_array_get_length(google_candidate_array) |->
        json_array_get_string_element(google_candidate_array, i - 1)]

\* Whether some element of google_candidate_array holds no string:
\* json_array_get_string_element returns NULL for it, and the std::string
\* constructed from NULL throws std::logic_error, which nothing catches.
GoogleCandidateFromNull(google_candidate_array) ==
    \E i \in 1..json_array_get_length(google_candidate_array) :
        json_array_get_string_element(google_candidate_array, i - 1) = NULL

\* GoogleCloudCandidatesResponseJsonParser::parseJsonResponse. m_annotation
\* points into the tree of m_parser and is assigned only when the annotation
\* is reached: on every earlier return it keeps pointing into the tree that
\* the load of this response has freed.
GoogleParseJsonResponse(root, p) ==
    LET stale == ParserState(p.m_annotation, p.m_annotation # NULL, <<>>)
        google_root_array == root
        google_response_status == json_array_get_string_element(google_root_array, 0)
        google_response_array == json_array_get_array_element(google_root_array, 1)
        google_result_array == json_array_get_array_element(google_response_array, 0)
        google_candidate_annotation == json_array_get_string_element(google_result_array, 0)
        google_candidate_array == json_array_get_array_element(google_result_array, 1)
        result_counter == json_array_get_length(google_candidate_array)
    IN  IF root.k # "array" THEN ParseResult(PARSER_BAD_FORMAT, stale)
        ELSE IF json_array_get_length(google_root_array) <= 1
        THEN ParseResult(PARSER_INVALID_DATA, stale)
        ELSE IF google_response_status # <<"SUCCESS">>
        THEN ParseResult(PARSER_INVALID_DATA, stale)
        ELSE IF json_array_get_length(google_response_array) < 1
        THEN ParseResult(PARSER_INVALID_DATA, stale)
        ELSE IF google_candidate_annotation = NULL
        THEN ParseResult(PARSER_INVALID_DATA, stale)
        ELSE IF result_counter < 1
        THEN ParseResult(PARSER_NO_CANDIDATE,
                         ParserState(google_candidate_annotation, FALSE, <<>>))
        ELSE IF GoogleCandidateFromNull(google_candidate_array)
        THEN ParseEnds(ParserState(google_candidate_annotation, FALSE, <<>>))
        ELSE ParseResult(PARSER_NOERR,
                         ParserState(google_candidate_annotation, FALSE,
                                     GoogleCandidates(google_candidate_array)))

\* The text of each baidu_candidate, the invalid-data glyph for an empty one.
BaiduCandidates(baidu_candidate_array) ==
    [i \in 1..json_array_get_length(baidu_candidate_array) |->
        LET baidu_candidate == json_array_get_array_element(baidu_candidate_array, i - 1)
        IN  IF json_array_get_length(baidu_candidate) < 1
            THEN CANDIDATE_INVALID_DATA_TEXT_WITHOUT_PREFIX
            ELSE json_array_get_string_element(baidu_candidate, 0)]

\* Whether the first element of some baidu_candidate that is not empty holds
\* no string: json_array_get_string_element returns NULL for it, and the
\* std::string assigned from NULL reads through the null pointer.
BaiduCandidateFromNull(baidu_candidate_array) ==
    \E i \in 1..json_array_get_length(baidu_candidate_array) :
        LET baidu_candidate == json_array_get_array_element(baidu_candidate_array, i - 1)
        IN  /\ json_array_get_length(baidu_candidate) >= 1
            /\ json_array_get_string_element(baidu_candidate, 0) = NULL

\* BaiduCloudCandidatesResponseJsonParser::parseJsonResponse. m_annotation is
\* the parser's own copy: it is freed and reset first.
BaiduParseJsonResponse(root, p) ==
    LET cleared == ParserState(NULL, FALSE, <<>>)
        baidu_root_object == root
        baidu_response_status == json_object_get_string_member(baidu_root_object, "status")
        baidu_result_array == json_object_get_array_member(baidu_root_object, "result")
        baidu_candidate_array == json_array_get_array_element(baidu_result_array, 0)
        baidu_candidate_annotation == json_array_get_string_element(baidu_result_array, 1)
        result_counter == json_array_get_length(baidu_candidate_array)
    IN  IF root.k # "object" THEN ParseResult(PARSER_BAD_FORMAT, cleared)
        ELSE IF ~json_object_has_member(baidu_root_object, "status")
        THEN ParseResult(PARSER_INVALID_DATA, cleared)
        ELSE IF baidu_response_status # <<"T">>
        THEN ParseResult(PARSER_INVALID_DATA, cleared)
        ELSE IF ~json_object_has_member(baidu_root_object, "result")
        THEN ParseResult(PARSER_INVALID_DATA, cleared)
        ELSE IF json_array_get_length(baidu_result_array) < 2
        THEN ParseResult(PARSER_INVALID_DATA, cleared)
        ELSE IF baidu_candidate_annotation = NULL
        THEN ParseResult(PARSER_INVALID_DATA, cleared)
        ELSE IF result_counter < 1
        THEN ParseResult(PARSER_NO_CANDIDATE,
                         ParserState(StripQuotes(baidu_candidate_annotation), FALSE, <<>>))
        ELSE IF BaiduCandidateFromNull(baidu_candidate_array)
        THEN ParseEnds(ParserState(StripQuotes(baidu_candidate_annotation), FALSE, <<>>))
        ELSE ParseResult(PARSER_NOERR,
                         ParserState(StripQuotes(baidu_candidate_annotation), FALSE,
                                     BaiduCandidates(baidu_candidate_array)))

\* A response as the transport hands it over: no stream at all, bytes that
\* are not JSON, or the JSON tree of the bytes.
NoStream == [kind |-> "null", root |-> NoNode]
NotJson == [kind |-> "garbage", root |-> NoNode]
JsonStream(root) == [kind |-> "json", root |-> root]

\* CloudCandidatesResponseJsonParser::parse. Without a stream nothing of the
\* parser is touched; a failed load has already dropped the previous tree.
Parse(cloud_source, stream, p) ==
    IF stream.kind = "null" THEN ParseResult(PARSER_NETWORK_ERROR, p)
    ELSE IF stream.kind = "garbage"
    THEN ParseResult(PARSER_BAD_FORMAT,
                     IF cloud_source = GOOGLE
                     THEN ParserState(p.m_annotation, p.m_annotation # NULL, p.m_candidates)
                     ELSE p)
    ELSE IF cloud_source = GOOGLE THEN GoogleParseJsonResponse(stream.root, p)
    ELSE BaiduParseJsonResponse(stream.root, p)


(* ------------------------------- state -------------------------------- *)

VARIABLES
    m_text,                   \* m_editor->m_text, the raw phonetic text
    editor_candidates,        \* the candidates the editor computes for m_text
    lookup_candidates,        \* m_editor->m_candidates, the visible list
    cloud_source,             \* m_editor->m_config.cloudInputSource ()
    cloud_candidates_number,  \* m_editor->m_config.cloudCandidatesNumber ()
    m_last_requested_pinyin,  \* the query of the last request, or empty
    m_candidates,             \* the cached cloud candidates
    m_source_event_id,        \* the id of the pending timer, 0 for none
    m_message,                \* the message in flight, 0 for NULL
    m_google_parser,          \* the state of the Google parser
    m_baidu_parser,           \* the state of the Baidu parser
    timers,                   \* the timeout sources of the main loop
    session,                  \* the messages the session has not completed
    next_source_id,           \* the id the next timeout source gets
    next_message,             \* the identity the next message gets
    deleted,                  \* whether ~CloudCandidates has run
    history,                  \* what the handlers did since construction
    event                     \* the handler that ran last and what it did

vars == <<m_text, editor_candidates, lookup_candidates, cloud_source,
          cloud_candidates_number, m_last_requested_pinyin, m_candidates,
          m_source_event_id, m_message, m_google_parser, m_baidu_parser,
          timers, session, next_source_id, next_message, deleted, history,
          event>>

\* What processCloudResponse did: the cached candidates before and after it,
\* the code and the parser the parse left, and the query it compared with.
Merge(done, before, after, ret, parser, text) ==
    [done |-> done, before |-> before, after |-> after, ret |-> ret,
     parser |-> parser, text |-> text]

NoMerge == Merge(FALSE, <<>>, <<>>, PARSER_NOERR, NewParser, <<>>)

\* The state as one record, which the handlers below take and return. log
\* collects the steps of the handler that is running; ended tells that the
\* process was terminated inside it.
State ==
    [m_text |-> m_text,
     editor_candidates |-> editor_candidates,
     lookup_candidates |-> lookup_candidates,
     cloud_source |-> cloud_source,
     cloud_candidates_number |-> cloud_candidates_number,
     m_last_requested_pinyin |-> m_last_requested_pinyin,
     m_candidates |-> m_candidates,
     m_source_event_id |-> m_source_event_id,
     m_message |-> m_message,
     m_google_parser |-> m_google_parser,
     m_baidu_parser |-> m_baidu_parser,
     timers |-> timers,
     session |-> session,
     next_source_id |-> next_source_id,
     next_message |-> next_message,
     deleted |-> deleted,
     history |-> history,
     log |-> <<>>,
     merge |-> NoMerge,
     ended |-> FALSE]

\* The process is terminated (an exception nothing catches, or a signal)
\* while the handler is running.
Ends(s) == [s EXCEPT !.ended = TRUE]

\* m_input_mode: set to FullPinyin by the constructor and assigned nowhere else.
m_input_mode == "FullPinyin"

\* The normalized query: m_editor->m_text in full pinyin mode.
full_pinyin_text(s) == s.m_text

\* Every cached candidate with its display string replaced by text.
SetDisplayStrings(candidates, text) ==
    [i \in 1..Len(candidates) |-> [candidates[i] EXCEPT !.m_display_string = text]]

\* std::vector::insert (pos, first, last), pos a 1-based position.
VectorInsert(candidates, pos, items) ==
    SubSeq(candidates, 1, pos - 1) \o items \o SubSeq(candidates, pos, Len(candidates))

(* -------------------------- debounce timer ---------------------------- *)

\* A faulty variant of delayedCloudAsyncRequest that leaves the pending timer
\* in place; C2 tells it from the code.
delayedCloudAsyncRequest_KeepsTimer(s, requestStr) ==
    LET data == [event_id |-> s.next_source_id,
                 request_str |-> Strncpy(requestStr, MAX_PINYIN_LEN)]
    IN  [s EXCEPT !.timers = s.timers \cup {data},
                  !.m_source_event_id = s.next_source_id,
                  !.next_source_id = s.next_source_id + 1,
                  !.history = [s.history EXCEPT !.burst = Append(s.history.burst, requestStr)],
                  !.log = Append(s.log, <<"arm", requestStr>>)]

\* CloudCandidates::delayedCloudAsyncRequest: remove the pending timer, add a
\* new one that holds the first MAX_PINYIN_LEN bytes of requestStr.
delayedCloudAsyncRequest(s, requestStr) ==
    LET kept == IF s.m_source_event_id # 0
                THEN {t \in s.timers : t.event_id # s.m_source_event_id}
                ELSE s.timers
        data == [event_id |-> s.next_source_id,
                 request_str |-> Strncpy(requestStr, MAX_PINYIN_LEN)]
    IN  [s EXCEPT !.timers = kept \cup {data},
                  !.m_source_event_id = s.next_source_id,
                  !.next_source_id = s.next_source_id + 1,
                  !.history = [s.history EXCEPT !.burst = Append(s.history.burst, requestStr)],
                  !.log = Append(s.log, <<"arm", requestStr>>)]

(* ------------------------- trigger decision --------------------------- *)

\* The first position whose candidate is not an n-best match, Len + 1 if none.
FirstNonNBest(candidates) ==
    IF \E i \in 1..Len(candidates) : candidates[i].m_candidate_type # CANDIDATE_NBEST_MATCH
    THEN CHOOSE i \in 1..Len(candidates) :
            /\ candidates[i].m_candidate_type # CANDIDATE_NBEST_MATCH
            /\ \A j \in 1..(i - 1) : candidates[j].m_candidate_type = CANDIDATE_NBEST_MATCH
    ELSE Len(candidates) + 1

\* A faulty variant of CandidatesWithPrefix that shows every cached candidate
\* twice; C7 tells it from the code.
CandidatesWithPrefix_Twice(cached) ==
    [i \in 1..(2 * Len(cached)) |->
        [cached[((i - 1) % Len(cached)) + 1] EXCEPT !.m_display_string =
            CANDIDATE_CLOUD_PREFIX \o cached[((i - 1) % Len(cached)) + 1].m_display_string]]

\* The cached candidates as the re-render path shows them.
CandidatesWithPrefix(cached) ==
    [i \in 1..Len(cached) |->
        [cached[i] EXCEPT !.m_display_string = CANDIDATE_CLOUD_PREFIX \o cached[i].m_display_string]]

\* A faulty variant of Placeholders that numbers the placeholders from 1; C21
\* tells it from the code.
Placeholders_FromOne(number) ==
    [i \in 1..number |-> EnhancedCandidate(CANDIDATE_CLOUD_INPUT, i, CANDIDATE_PENDING_TEXT)]

\* The placeholders of a new query.
Placeholders(number) ==
    [i \in 1..number |-> EnhancedCandidate(CANDIDATE_CLOUD_INPUT, i - 1, CANDIDATE_PENDING_TEXT)]

\* What processCandidates leaves: the state, the caller's list, the return value.
Processed(s, candidates, ret) == [s |-> s, candidates |-> candidates, ret |-> ret]

\* The types testCan may have: the type of the candidate at the position, or,
\* when the position is the end of the list, whatever the memory there holds.
TestCanTypes(candidates, pos) ==
    IF pos <= Len(candidates) THEN {candidates[pos].m_candidate_type}
    ELSE CandidateTypes

\* Whether the copy into testCan may terminate the process: at the end of
\* the list it copies a std::string out of memory that holds no candidate.
TestCanMayEnd(candidates, pos) == pos > Len(candidates)

\* CloudCandidates::processCandidates, the set of its possible outcomes. The
\* log notes the position whose candidate is copied into testCan. A copy
\* from the end of the list gives a candidate of any type, or terminates the
\* process.
processCandidates(s, candidates) ==
    LET cloud_candidates_first_pos == FirstNonNBest(candidates)
        query == full_pinyin_text(s)
        read == [s EXCEPT !.log = Append(s.log, <<"testCan", cloud_candidates_first_pos>>)]
        seeded == [read EXCEPT !.m_candidates = Placeholders(s.cloud_candidates_number),
                               !.log = Append(read.log, <<"seed", query>>)]
    IN  IF candidates = <<>> THEN {Processed(s, candidates, FALSE)}
        ELSE IF Len(candidates[1].m_display_string) < CLOUD_MINIMUM_UTF8_TRIGGER_LENGTH
        THEN {Processed([s EXCEPT !.m_last_requested_pinyin = <<>>,
                                  !.history = [s.history EXCEPT !.cleared = TRUE],
                                  !.log = Append(s.log, <<"clear", query>>)],
                        candidates, FALSE)}
        ELSE IF s.m_last_requested_pinyin = query
        THEN {Processed([s EXCEPT !.log = Append(s.log, <<"rerender", query>>)],
                        VectorInsert(candidates, cloud_candidates_first_pos,
                                     CandidatesWithPrefix(s.m_candidates)),
                        FALSE)}
        ELSE {IF testCanType = CANDIDATE_CLOUD_INPUT
              THEN Processed(read, candidates, FALSE)
              ELSE Processed(delayedCloudAsyncRequest(seeded, query),
                             VectorInsert(candidates, cloud_candidates_first_pos,
                                          seeded.m_candidates),
                             TRUE)
              : testCanType \in TestCanTypes(candidates, cloud_candidates_first_pos)}
             \cup (IF TestCanMayEnd(candidates, cloud_candidates_first_pos)
                   THEN {Processed(Ends(read), candidates, FALSE)}
                   ELSE {})

\* The editor's updateCandidates: the editor's own candidates for m_text,
\* handed to processCandidates, become the visible list.
updateCandidates(s) ==
    {[r.s EXCEPT !.lookup_candidates = r.candidates] :
        r \in processCandidates(s, s.editor_candidates)}

\* CloudCandidates::updateLookupTable: update the candidates, refill the table.
updateLookupTable(s) == updateCandidates(s)


(* -------------------------- request lifecycle ------------------------- *)

\* soup_session_cancel_message: the message, if the session still holds it,
\* is cancelled; its callback runs later, from the main loop.
soup_session_cancel_message(messages, msg) ==
    {IF r.id = msg THEN [r EXCEPT !.cancelled = TRUE] ELSE r : r \in messages}

\* A faulty variant of cloudAsyncRequest that sends the message and leaves
\* m_last_requested_pinyin for the response to set; C10 tells it from the code.
cloudAsyncRequest_ForgetsQuery(s, requestStr) ==
    LET cancelled == IF s.m_message # 0
                     THEN {IF r.id = s.m_message THEN [r EXCEPT !.cancelled = TRUE] ELSE r
                              : r \in s.session}
                     ELSE s.session
        msg == [id |-> s.next_message, query |-> requestStr, cancelled |-> FALSE]
    IN  {[s EXCEPT !.session = cancelled \cup {msg},
                   !.m_message = msg.id,
                   !.next_message = s.next_message + 1,
                   !.m_candidates = SetDisplayStrings(s.m_candidates,
                                        CANDIDATE_LOADING_TEXT_WITHOUT_PREFIX),
                   !.history = [s.history EXCEPT !.cleared = FALSE],
                   !.log = Append(s.log, <<"issue", requestStr>>)]}

\* CloudCandidates::cloudAsyncRequest, the set of its possible outcomes.
cloudAsyncRequest(s, requestStr) ==
    LET cancelled == IF s.m_message # 0
                     THEN soup_session_cancel_message(s.session, s.m_message)
                     ELSE s.session
        msg == [id |-> s.next_message, query |-> requestStr, cancelled |-> FALSE]
        sent == [s EXCEPT !.session = cancelled \cup {msg},
                          !.m_message = msg.id,
                          !.next_message = s.next_message + 1,
                          !.m_last_requested_pinyin = requestStr,
                          !.m_candidates = SetDisplayStrings(s.m_candidates,
                                               CANDIDATE_LOADING_TEXT_WITHOUT_PREFIX),
                          !.history = [s.history EXCEPT !.cleared = FALSE],
                          !.log = Append(s.log, <<"issue", requestStr>>)]
    IN  IF Len(s.m_text) >= CLOUD_MINIMUM_TRIGGER_LENGTH
        THEN updateLookupTable(sent)
        ELSE {sent}

\* A faulty variant of delayedCloudAsyncRequestCallBack that issues the
\* request whatever the token of the data; C19 tells it from the code.
delayedCloudAsyncRequestCallBack_IgnoresToken(s, data) ==
    cloudAsyncRequest([s EXCEPT !.timers = s.timers \ {data},
                                !.history = [s.history EXCEPT !.burst = <<>>],
                                !.m_source_event_id = 0],
                      data.request_str)

\* CloudCandidates::delayedCloudAsyncRequestCallBack for the timer data; the
\* source is removed because the callback returns FALSE.
delayedCloudAsyncRequestCallBack(s, data) ==
    LET removed == [s EXCEPT !.timers = s.timers \ {data},
                             !.history = [s.history EXCEPT !.burst = <<>>]]
    IN  IF data.event_id = s.m_source_event_id
        THEN cloudAsyncRequest([removed EXCEPT !.m_source_event_id = 0], data.request_str)
        ELSE {removed}

\* CloudCandidates::~CloudCandidates: the two parsers are deleted, and the
\* object with them. The timeout source stays with the main loop and the
\* message with the session; the members stay in the freed memory.
CloudCandidatesDestructor(s) ==
    [s EXCEPT !.m_baidu_parser = NewParser,
              !.m_google_parser = NewParser,
              !.deleted = TRUE]

\* The dispatch of a timeout source. After the destructor
\* data->cloud_candidates refers to the deleted object, and the callback
\* reads m_source_event_id from freed memory: it finds the value the object
\* left there and goes on as on the object, finds another value and does
\* nothing, or the read ends the process.
DispatchedTimer(s, data) ==
    IF s.deleted
    THEN delayedCloudAsyncRequestCallBack(s, data)
         \cup {[s EXCEPT !.timers = s.timers \ {data}], Ends(s)}
    ELSE delayedCloudAsyncRequestCallBack(s, data)

\* What strcpy (annotation, parser->getAnnotation ()) may read: the string,
\* or, when its memory has been freed, what that memory holds by then: the
\* old string, bytes that equal no text (of any length), or, the block being
\* used again for a string of the new response, any string, that of the
\* current text too.
AnnotationReads(p, text) ==
    IF p.dangling THEN {p.m_annotation, <<"garbage">>, text} ELSE {p.m_annotation}

\* Whether strcpy writes past gchar annotation[MAX_PINYIN_LEN + 1].
AnnotationOverflows(annotation) == Len(annotation) > MAX_PINYIN_LEN

\* Whether the copy may end the process: the string is longer than the
\* buffer, or its memory has been freed, and then the bytes copied end
\* where that memory happens to hold a NUL.
CopyMayEnd(p) == p.dangling \/ AnnotationOverflows(p.m_annotation)

\* The display text of a parser error: an empty String for a code the switch
\* has no case for.
ErrorDisplayText(ret_code) ==
    CASE ret_code = PARSER_NO_CANDIDATE -> CANDIDATE_NO_CANDIDATE_TEXT_WITHOUT_PREFIX
      [] ret_code = PARSER_INVALID_DATA -> CANDIDATE_INVALID_DATA_TEXT_WITHOUT_PREFIX
      [] ret_code = PARSER_BAD_FORMAT -> CANDIDATE_BAD_FORMAT_TEXT_WITHOUT_PREFIX
      [] OTHER -> <<>>

\* A faulty variant of UpdateCached that empties the candidates the response
\* has no word for; C6 tells it from the code.
UpdateCached_ClearsRest(cached, updated_candidates) ==
    [i \in 1..Len(cached) |->
        [cached[i] EXCEPT !.m_display_string =
            IF i <= Len(updated_candidates) THEN updated_candidates[i] ELSE <<>>]]

\* The cached candidates with the first words written over them in order.
UpdateCached(cached, updated_candidates) ==
    [i \in 1..Len(cached) |->
        IF i <= Len(updated_candidates)
        THEN [cached[i] EXCEPT !.m_display_string = updated_candidates[i]]
        ELSE cached[i]]

\* A faulty variant of Accepted that applies every response; C3 tells it from
\* the code.
Accepted_Always(source, annotation, text) == TRUE

\* A faulty variant of Accepted that applies a Google response only when its
\* annotation is not the text; C4 tells it from the code.
Accepted_OnlyStale(source, annotation, text) == source = BAIDU \/ annotation # text

\* Whether processCloudResponse applies a response with this annotation.
Accepted(source, annotation, text) == source = BAIDU \/ annotation = text

\* CloudCandidates::processCloudResponse, the set of its possible outcomes. A
\* parse that does not return ends the process, and so may the copy of an
\* annotation longer than the buffer it is copied to.
processCloudResponse(s, stream) ==
    LET old == IF s.cloud_source = BAIDU THEN s.m_baidu_parser ELSE s.m_google_parser
        parsed == Parse(s.cloud_source, stream, old)
        ret_code == parsed.ret
        parser == parsed.parser
        s1 == IF s.cloud_source = BAIDU
              THEN [s EXCEPT !.m_baidu_parser = parser]
              ELSE [s EXCEPT !.m_google_parser = parser]
        s2 == IF ret_code = PARSER_NETWORK_ERROR
              THEN [s1 EXCEPT !.m_candidates = SetDisplayStrings(s1.m_candidates,
                                    CANDIDATE_INVALID_DATA_TEXT_WITHOUT_PREFIX)]
              ELSE s1
        text == full_pinyin_text(s)
        Done(u) == [u EXCEPT !.merge = Merge(TRUE, s.m_candidates, u.m_candidates,
                                             ret_code, parser, text)]
    IN  IF parsed.ended THEN {Ends(s)}
        ELSE IF parser.m_annotation = NULL THEN {Done(s2)}
        ELSE {IF Accepted(s.cloud_source, annotation, text)
              THEN IF ret_code = PARSER_NOERR
                   THEN Done([s2 EXCEPT !.m_candidates =
                                  UpdateCached(s2.m_candidates, parser.m_candidates)])
                   ELSE Done([s2 EXCEPT !.m_candidates =
                                  SetDisplayStrings(s2.m_candidates, ErrorDisplayText(ret_code))])
              ELSE Done(s2)
              : annotation \in AnnotationReads(parser, text)}
             \cup (IF CopyMayEnd(parser) THEN {Ends(s2)} ELSE {})

\* The end of cloudResponseCallBack: the table is refreshed and the message
\* forgotten only while there is still pinyin text.
FinishCallBack(s) ==
    IF Len(s.m_text) >= CLOUD_MINIMUM_TRIGGER_LENGTH
    THEN {[u EXCEPT !.m_message = 0] : u \in updateLookupTable(s)}
    ELSE {s}

\* CloudCandidates::cloudResponseCallBack for a message the session completes
\* with this stream. Nothing follows a processCloudResponse that ended the
\* process. The destructor cancels no message: after it user_data refers to
\* the deleted object, and the call through it, which reads the deleted
\* parsers, ends the process.
cloudResponseCallBack(s, msg, stream) ==
    LET completed == [s EXCEPT !.session = s.session \ {msg}]
    IN  IF s.deleted THEN {Ends(completed)}
        ELSE UNION {IF u.ended THEN {u} ELSE FinishCallBack(u) :
                       u \in processCloudResponse(completed, stream)}

\* CloudCandidates::cloudSyncRequest for the stream soup_session_send returns:
\* the state it leaves and the caller's list, which processCloudResponse
\* never uses.
cloudSyncRequest(s, requestStr, candidates, stream) ==
    {[s |-> u, candidates |-> candidates] : u \in processCloudResponse(s, stream)}

(* ----------------------------- selection ------------------------------ *)

\* The display strings for which selectCandidate does nothing.
InertDisplayStrings ==
    {CANDIDATE_PENDING_TEXT, CANDIDATE_LOADING_TEXT,
     CANDIDATE_BAD_FORMAT_TEXT, CANDIDATE_INVALID_DATA_TEXT}

\* A faulty variant of selectCandidate that commits the entry as it is shown,
\* prefix included; C9 tells it from the code.
selectCandidate_KeepsText(s, enhanced) ==
    IF enhanced.m_display_string \in InertDisplayStrings
    THEN [ret |-> SELECT_CANDIDATE_ALREADY_HANDLED, enhanced |-> enhanced]
    ELSE IF \E i \in 1..Len(s.m_candidates) :
                s.m_candidates[i].m_candidate_id = enhanced.m_candidate_id
    THEN [ret |-> SELECT_CANDIDATE_COMMIT \cup SELECT_CANDIDATE_MODIFY_IN_PLACE,
          enhanced |-> enhanced]
    ELSE [ret |-> SELECT_CANDIDATE_ALREADY_HANDLED, enhanced |-> enhanced]

\* CloudCandidates::selectCandidate: the value it returns and the entry after it.
selectCandidate(s, enhanced) ==
    IF enhanced.m_display_string \in InertDisplayStrings
    THEN [ret |-> SELECT_CANDIDATE_ALREADY_HANDLED, enhanced |-> enhanced]
    ELSE IF \E i \in 1..Len(s.m_candidates) :
                s.m_candidates[i].m_candidate_id = enhanced.m_candidate_id
    THEN LET pos == CHOOSE i \in 1..Len(s.m_candidates) :
                      /\ s.m_candidates[i].m_candidate_id = enhanced.m_candidate_id
                      /\ \A j \in 1..(i - 1) :
                            s.m_candidates[j].m_candidate_id # enhanced.m_candidate_id
         IN  [ret |-> SELECT_CANDIDATE_COMMIT \cup SELECT_CANDIDATE_MODIFY_IN_PLACE,
              enhanced |-> [enhanced EXCEPT !.m_display_string =
                                               s.m_candidates[pos].m_display_string]]
    ELSE [ret |-> SELECT_CANDIDATE_ALREADY_HANDLED, enhanced |-> enhanced]


(* ------------------------- the editor's inputs ------------------------ *)

NBest(text) == EnhancedCandidate(CANDIDATE_NBEST_MATCH, 0, text)
Normal(text) == EnhancedCandidate(CANDIDATE_NORMAL, 0, text)

\* An editor state: the raw text and the candidates the editor computes for it.
EditorInput(text, candidates) == [m_text |-> text, candidates |-> candidates]

\* The two queries long enough to trigger a lookup.
QueryA == <<"n", "h">>
QueryB == <<"n", "h", "m">>
Queries == {QueryA, QueryB}

\* No text (fewer bytes than CLOUD_MINIMUM_TRIGGER_LENGTH, no candidate); two
\* bytes whose best candidate is one code point; the two queries; and the
\* second query with nothing but n-best candidates.
EditorInputs ==
    {EditorInput(<<>>, <<>>),
     EditorInput(<<"n", "i">>, <<NBest(<<"N">>), Normal(<<"I">>)>>),
     EditorInput(QueryA, <<NBest(<<"N", "H">>), Normal(<<"N">>)>>),
     EditorInput(QueryB, <<NBest(<<"N", "H", "M">>), NBest(<<"N", "H">>), Normal(<<"N">>)>>),
     EditorInput(QueryB, <<NBest(<<"N", "H", "M">>)>>)}

(* ------------------------- the provider's answers --------------------- *)

\* The i-th word a provider returns for the annotation.
Word(annotation, i) == <<"w">> \o annotation \o <<ToString(i)>>

\* ["SUCCESS",[[annotation,[word, ...],[],{}]]]
GoogleResponse(annotation, count) ==
    JArray(<<JString(<<"SUCCESS">>),
             JArray(<<JArray(<<JString(annotation),
                               JArray([i \in 1..count |-> JString(Word(annotation, i))]),
                               JArray(<<>>),
                               JObject(<<>>, <<>>)>>)>>)>>)

\* The annotation as Baidu echoes it, a quote after the first letter.
BaiduAnnotation(annotation) ==
    IF Len(annotation) >= 2 THEN <<Head(annotation), "'">> \o Tail(annotation)
    ELSE annotation

\* {"errno":"0","result":[[[word,1], ...],annotation],"status":"T"}
BaiduResponse(annotation, count) ==
    JObject(<<"errno", "result", "status">>,
            <<JString(<<"0">>),
              JArray(<<JArray([i \in 1..count |->
                                  JArray(<<JString(Word(annotation, i)), JNumber>>)]),
                       JString(BaiduAnnotation(annotation))>>),
              JString(<<"T">>)>>)

\* ["SUCCESS",[[annotation,[5]]]]: a candidate that is a number.
GoogleNumberResponse(annotation) ==
    JArray(<<JString(<<"SUCCESS">>),
             JArray(<<JArray(<<JString(annotation), JArray(<<JNumber>>)>>)>>)>>)

\* {"result":[[[5,1]],annotation],"status":"T"}: a candidate whose first
\* element is a number.
BaiduNumberResponse(annotation) ==
    JObject(<<"result", "status">>,
            <<JArray(<<JArray(<<JArray(<<JNumber, JNumber>>)>>),
                       JString(BaiduAnnotation(annotation))>>),
              JString(<<"T">>)>>)

\* An annotation one byte longer than gchar annotation[MAX_PINYIN_LEN] can
\* hold next to its terminator.
LongAnnotation == [i \in 1..MAX_PINYIN_LEN + 1 |-> "n"]

\* ["FAIL"] and {"errno":"1"}
FailResponse == JArray(<<JString(<<"FAIL">>)>>)
ErrnoResponse == JObject(<<"errno">>, <<JString(<<"1">>)>>)

\* How many words a well-formed answer carries: none, fewer than the slots
\* can be, more than they can be.
WordCounts == {0, 1, CloudCandidatesNumber + 1}

\* The streams the transport may complete a message with: none (a failure),
\* bytes that are no JSON, a refusal in either provider's shape, an answer
\* of the configured provider echoing some query, one with a number for a
\* word, or one whose annotation is longer than MAX_PINYIN_LEN.
Streams(source) ==
    {NoStream, NotJson, JsonStream(FailResponse), JsonStream(ErrnoResponse)}
    \cup {JsonStream(IF source = GOOGLE THEN GoogleResponse(a, n) ELSE BaiduResponse(a, n)) :
              a \in Queries, n \in WordCounts}
    \cup {JsonStream(IF source = GOOGLE THEN GoogleNumberResponse(QueryA)
                      ELSE BaiduNumberResponse(QueryA)),
          JsonStream(IF source = GOOGLE THEN GoogleResponse(LongAnnotation, 1)
                      ELSE BaiduResponse(LongAnnotation, 1))}

\* soup_session_send_finish for a message: a cancelled message finishes with
\* an error and no stream.
FinishedStreams(source, msg) ==
    IF msg.cancelled THEN {NoStream} ELSE Streams(source)

(* ------------------------------- events ------------------------------- *)

NoMessage == [id |-> 0, query |-> <<>>, cancelled |-> FALSE]
NoData == [event_id |-> 0, request_str |-> <<>>]
NoCandidate == EnhancedCandidate(CANDIDATE_NORMAL, 0, <<>>)

\* The parts of the state before a handler that the properties refer to.
Before(s) ==
    [m_text |-> s.m_text,
     m_last_requested_pinyin |-> s.m_last_requested_pinyin,
     m_candidates |-> s.m_candidates,
     m_source_event_id |-> s.m_source_event_id,
     m_message |-> s.m_message,
     timers |-> s.timers,
     session |-> s.session,
     next_message |-> s.next_message,
     history |-> s.history]

\* The record of a handler: which one, the state before it, the steps it
\* took, the merge it made, and its arguments (for a parse, the root of the
\* payload) and results.
Event(op, pre, post) ==
    [op |-> op, pre |-> Before(pre), log |-> post.log, merge |-> post.merge,
     candidates |-> <<>>, triggered |-> FALSE,
     data |-> NoData, msg |-> NoMessage, stream |-> "none", root |-> NoNode,
     enhanced |-> NoCandidate, selected |-> NoCandidate, ret |-> {}]

\* What has happened so far: the queries of the arming calls since a timer
\* last fired, and whether a trigger decision has cleared
\* m_last_requested_pinyin since the last request was issued, and the number
\* of synchronous requests made.
NoHistory == [burst |-> <<>>, cleared |-> FALSE, syncs |-> 0]

\* What is left of s when the process has ended: no object, no timer, no
\* message; the configuration is what it was.
Terminated(s) ==
    [m_text |-> <<>>,
     editor_candidates |-> <<>>,
     lookup_candidates |-> <<>>,
     cloud_source |-> s.cloud_source,
     cloud_candidates_number |-> s.cloud_candidates_number,
     m_last_requested_pinyin |-> <<>>,
     m_candidates |-> <<>>,
     m_source_event_id |-> 0,
     m_message |-> 0,
     m_google_parser |-> NewParser,
     m_baidu_parser |-> NewParser,
     timers |-> {},
     session |-> {},
     next_source_id |-> 1,
     next_message |-> 1,
     deleted |-> FALSE,
     history |-> NoHistory,
     log |-> <<>>,
     merge |-> NoMerge,
     ended |-> TRUE]

\* The state a handler leaves: s, or nothing when the process ended in it.
\* Of a deleted object no history is kept.
Left(s) ==
    IF s.ended THEN Terminated(s)
    ELSE IF s.deleted THEN [s EXCEPT !.history = NoHistory]
    ELSE s

\* The record of the handler that left s: e, or that the process has ended,
\* or that the object it ran on had been deleted.
Recorded(s, e) ==
    IF s.ended
    THEN LET left == Terminated(s) IN Event("ended", left, left)
    ELSE IF s.deleted
    THEN LET left == Terminated(s) IN Event("deleted", left, left)
    ELSE e

\* The process is running: no handler has ended it.
Running == event.op # "ended"

\* The owner can call the object: the process is running and the object has
\* not been deleted.
Alive == Running /\ ~deleted

\* The variables take the values of the state record s.
Becomes(s) ==
    LET left == Left(s)
    IN  /\ m_text' = left.m_text
        /\ editor_candidates' = left.editor_candidates
        /\ lookup_candidates' = left.lookup_candidates
        /\ cloud_source' = left.cloud_source
        /\ cloud_candidates_number' = left.cloud_candidates_number
        /\ m_last_requested_pinyin' = left.m_last_requested_pinyin
        /\ m_candidates' = left.m_candidates
        /\ m_source_event_id' = left.m_source_event_id
        /\ m_message' = left.m_message
        /\ m_google_parser' = left.m_google_parser
        /\ m_baidu_parser' = left.m_baidu_parser
        /\ timers' = left.timers
        /\ session' = left.session
        /\ next_source_id' = left.next_source_id
        /\ next_message' = left.next_message
        /\ deleted' = left.deleted
        /\ history' = left.history

\* No more than MaxTimers timers are created in a run; a process that has
\* ended creates none.
WithinBounds(s) == s.ended \/ s.next_source_id <= MaxTimers + 1

(* ------------------------------ behaviour ----------------------------- *)

\* CloudCandidates::CloudCandidates, before any input.
Init ==
    /\ m_text = <<>>
    /\ editor_candidates = <<>>
    /\ lookup_candidates = <<>>
    /\ cloud_source \in {BAIDU, GOOGLE}
    /\ cloud_candidates_number = CloudCandidatesNumber
    /\ m_last_requested_pinyin = <<>>
    /\ m_candidates = <<>>
    /\ m_source_event_id = 0
    /\ m_message = 0
    /\ m_google_parser = NewParser
    /\ m_baidu_parser = NewParser
    /\ timers = {}
    /\ session = {}
    /\ next_source_id = 1
    /\ next_message = 1
    /\ deleted = FALSE
    /\ history = NoHistory
    /\ event = Event("none", State, State)

\* The user edits the text (or the editor redraws): the editor computes its
\* candidates and runs the trigger decision on them.
EditorUpdate ==
    \E input \in EditorInputs :
        LET edited == [State EXCEPT !.m_text = input.m_text,
                                    !.editor_candidates = input.candidates]
        IN  \E r \in processCandidates(edited, edited.editor_candidates) :
                /\ Alive
                /\ WithinBounds(r.s)
                /\ Becomes([r.s EXCEPT !.lookup_candidates = r.candidates])
                /\ event' = Recorded(r.s, [Event("processCandidates", edited, r.s)
                                              EXCEPT !.candidates = r.candidates,
                                                     !.triggered = r.ret])

\* The main loop dispatches a timeout source.
TimerFires ==
    \E data \in timers :
        \E s \in DispatchedTimer(State, data) :
            /\ Running
            /\ WithinBounds(s)
            /\ Becomes(s)
            /\ event' = Recorded(s, [Event("timer", State, s) EXCEPT !.data = data])

\* The session completes a message: with some stream, or with none.
ResponseArrives ==
    \E msg \in session :
        \E stream \in FinishedStreams(cloud_source, msg) :
            \E s \in cloudResponseCallBack(State, msg, stream) :
                /\ Running
                /\ WithinBounds(s)
                /\ Becomes(s)
                /\ event' = Recorded(s, [Event("response", State, s)
                                            EXCEPT !.msg = msg, !.stream = stream.kind])

\* The user selects a cloud entry of the visible list.
SelectCandidate ==
    \E i \in 1..Len(lookup_candidates) :
        /\ Alive
        /\ lookup_candidates[i].m_candidate_type = CANDIDATE_CLOUD_INPUT
        /\ LET r == selectCandidate(State, lookup_candidates[i])
               s == [State EXCEPT !.lookup_candidates[i] = r.enhanced]
           IN  /\ Becomes(s)
               /\ event' = [Event("select", State, s)
                               EXCEPT !.enhanced = lookup_candidates[i],
                                      !.selected = r.enhanced,
                                      !.ret = r.ret]

\* The owner deletes the object.
ObjectDeleted ==
    /\ Alive
    /\ Becomes(CloudCandidatesDestructor(State))
    /\ event' = Recorded(CloudCandidatesDestructor(State), event)

Next ==
    \/ EditorUpdate
    \/ TimerFires
    \/ ResponseArrives
    \/ SelectCandidate
    \/ ObjectDeleted

Spec == Init /\ [][Next]_vars

\* A caller asks for the candidates of a query synchronously, handing over
\* the editor's list.
CloudSyncRequest ==
    \E requestStr \in Queries :
        \E stream \in Streams(cloud_source) :
            \E r \in cloudSyncRequest(State, requestStr, editor_candidates, stream) :
                /\ Alive
                /\ history.syncs < MaxSyncRequests
                /\ Becomes([r.s EXCEPT !.history.syncs = history.syncs + 1])
                /\ event' = Recorded(r.s, [Event("sync", State, r.s)
                                EXCEPT !.candidates = r.candidates,
                                       !.stream = stream.kind,
                                       !.data = [NoData EXCEPT !.request_str = requestStr]])

\* The behaviours in which cloudSyncRequest is called while the user types,
\* timers fire and the asynchronous requests are still unanswered.
SyncNext ==
    \/ EditorUpdate
    \/ TimerFires
    \/ CloudSyncRequest

SyncSpec == Init /\ [][SyncNext]_vars


\* The user types until the first request is issued, and then stops.
Typing ==
    /\ next_message = 1
    /\ EditorUpdate

ProgressNext ==
    \/ Typing
    \/ TimerFires
    \/ ResponseArrives

\* The behaviours in which the user stops typing, the main loop dispatches
\* every timeout source that stays pending and the session completes every
\* message it holds.
ProgressSpec ==
    /\ Init
    /\ [][ProgressNext]_vars
    /\ WF_vars(TimerFires)
    /\ WF_vars(ResponseArrives)


(* ---------------------- the parsers on their own ---------------------- *)

\* Values that are neither arrays nor objects.
Scalars == {JNumber, JString(<<"FAIL">>)}

\* The words of a Google candidate array.
GoogleWords(annotation, count) ==
    JArray([i \in 1..count |-> JString(Word(annotation, i))])

\* What a Google response may carry as a result: no array, an empty one, one
\* without a string first, one with the annotation alone, one with something
\* else than an array after it, one with 0 .. MaxWords words, and one with a
\* candidate that is no string, alone or after a word.
GoogleResults ==
    {JNumber, JArray(<<>>), JArray(<<JNumber, GoogleWords(QueryA, 1)>>),
     JArray(<<JString(QueryA), JArray(<<JNumber>>)>>),
     JArray(<<JString(QueryA), JArray(<<JString(Word(QueryA, 1)), GoogleWords(QueryA, 1)>>)>>)}
    \cup {JArray(<<JString(a)>>) : a \in Queries}
    \cup {JArray(<<JString(a), JNumber>>) : a \in Queries}
    \cup {JArray(<<JString(a), GoogleWords(a, n), JArray(<<>>), JObject(<<>>, <<>>)>>) :
              a \in Queries, n \in 0..MaxWords}

\* The roots a Google parser is given: values that are no arrays, arrays of
\* fewer than two elements, and a status followed by no array, an empty
\* array, or an array of a result.
GooglePayloads ==
    Scalars \cup {JObject(<<"status">>, <<JString(<<"T">>)>>), JArray(<<>>),
                  JArray(<<JString(<<"SUCCESS">>)>>), FailResponse}
    \cup {JArray(<<status, response>>) :
              status \in {JString(<<"SUCCESS">>), JString(<<"FAIL">>), JNumber},
              response \in {JNumber, JArray(<<>>)} \cup {JArray(<<r>>) : r \in GoogleResults}}

\* What a Baidu candidate array may hold at one place: a candidate with its
\* word, or an empty candidate.
BaiduCandidate(annotation, i, empty) ==
    IF empty THEN JArray(<<>>) ELSE JArray(<<JString(Word(annotation, i)), JNumber>>)

\* The candidate arrays of 0 .. MaxWords candidates, each empty or not.
BaiduCandidateArrays(annotation) ==
    {JArray([i \in 1..n |-> BaiduCandidate(annotation, i, i \in empties)]) :
         n \in 0..MaxWords, empties \in SUBSET (1..MaxWords)}

\* What a Baidu response may carry as its result: no array, arrays of fewer
\* than two elements, a candidate array followed by no string, a candidate
\* array followed by the annotation with or without a quote, and a
\* candidate whose first element is no string, alone or after a word.
BaiduResults ==
    {JNumber, JArray(<<>>), JArray(<<JArray(<<>>)>>),
     JArray(<<JArray(<<JArray(<<JNumber, JNumber>>)>>), JString(QueryA)>>),
     JArray(<<JArray(<<BaiduCandidate(QueryA, 1, FALSE), JArray(<<JNumber>>)>>),
              JString(QueryA)>>)}
    \cup {JArray(<<c, JNumber>>) : c \in BaiduCandidateArrays(QueryA)}
    \cup UNION {{JArray(<<c, JString(a)>>), JArray(<<c, JString(BaiduAnnotation(a))>>)} :
                    c \in BaiduCandidateArrays(QueryA), a \in Queries}

\* The roots a Baidu parser is given: values that are no objects, objects
\* without status or without result, and a status with a result.
BaiduPayloads ==
    Scalars \cup {JArray(<<>>), FailResponse, ErrnoResponse, JObject(<<>>, <<>>),
                  JObject(<<"status">>, <<JString(<<"T">>)>>)}
    \cup {JObject(<<"result">>, <<r>>) : r \in BaiduResults}
    \cup {JObject(<<"errno", "result", "status">>, <<JString(<<"0">>), r, status>>) :
              r \in BaiduResults,
              status \in {JString(<<"T">>), JString(<<"F">>), JNumber}}

\* parse of the Google parser on the stream of a payload.
GoogleParses ==
    /\ cloud_source = GOOGLE
    /\ Running
    /\ \E root \in GooglePayloads :
           LET parsed == Parse(GOOGLE, JsonStream(root), m_google_parser)
           IN  IF parsed.ended
               THEN /\ Becomes(Ends(State))
                    /\ event' = [Recorded(Ends(State), event) EXCEPT !.root = root]
               ELSE /\ Becomes([State EXCEPT !.m_google_parser = parsed.parser])
                    /\ event' = [Event("parse", State, State)
                                    EXCEPT !.root = root, !.stream = "json",
                                           !.merge = Merge(FALSE, <<>>, <<>>, parsed.ret,
                                                           parsed.parser, <<>>)]

\* parse of the Baidu parser on the stream of a payload.
BaiduParses ==
    /\ cloud_source = BAIDU
    /\ Running
    /\ \E root \in BaiduPayloads :
           LET parsed == Parse(BAIDU, JsonStream(root), m_baidu_parser)
           IN  IF parsed.ended
               THEN /\ Becomes(Ends(State))
                    /\ event' = [Recorded(Ends(State), event) EXCEPT !.root = root]
               ELSE /\ Becomes([State EXCEPT !.m_baidu_parser = parsed.parser])
                    /\ event' = [Event("parse", State, State)
                                    EXCEPT !.root = root, !.stream = "json",
                                           !.merge = Merge(FALSE, <<>>, <<>>, parsed.ret,
                                                           parsed.parser, <<>>)]

ParserNext ==
    \/ GoogleParses
    \/ BaiduParses

\* A parser of either provider given one payload after the other.
ParserSpec == Init /\ [][ParserNext]_vars


(* ------------------------------ properties ---------------------------- *)

\* The messages of the session that have not been cancelled.
ActiveMessages == {msg \in session : ~msg.cancelled}

\* C1 (single-flight): in every reachable state at most one asynchronous
\* request is outstanding, that is, at most one message of the session has
\* not been cancelled.
C1_SingleFlight == Cardinality(ActiveMessages) <= 1


\* The queries of the steps of one kind in a handler's log.
Steps(log, kind) ==
    LET OfKind(step) == step[1] = kind
        picked == SelectSeq(log, OfKind)
    IN  [i \in 1..Len(picked) |-> picked[i][2]]

Last(seq) == seq[Len(seq)]

\* C2 (debounce coalescing), of an object that has not been deleted: after
\* N >= 1 arming calls with queries q1..qN
\* and no timer fired in between, exactly one timer is pending, it holds qN
\* and it is the one m_source_event_id names, the one whose callback issues;
\* the timer that fires issues exactly one request, with qN; no other handler
\* issues a request, so none is issued for q1..q(N-1).
C2_DebounceCoalescing ==
    ~deleted =>
        /\ history.burst # <<>> =>
              /\ timers = {[event_id |-> m_source_event_id,
                            request_str |-> Last(history.burst)]}
              /\ m_source_event_id # 0
        /\ history.burst = <<>> => timers = {}
        /\ event.op = "timer" =>
              /\ event.pre.history.burst # <<>>
              /\ Steps(event.log, "issue") = <<Last(event.pre.history.burst)>>
              /\ next_message = event.pre.next_message + 1
              /\ \E msg \in session :
                    /\ msg.id + 1 = next_message
                    /\ msg.query = Last(event.pre.history.burst)
        /\ event.op # "timer" =>
              /\ Steps(event.log, "issue") = <<>>
              /\ next_message = event.pre.next_message
              /\ session \subseteq event.pre.session \/ event.op = "none"

\* A timer armed twice, first with another query, has fired and issued the
\* only request so far.
C2_Witness ==
    /\ event.op = "timer"
    /\ Len(event.pre.history.burst) >= 2
    /\ event.pre.history.burst[1] # Last(event.pre.history.burst)
    /\ next_message = 2
    /\ \E msg \in session : msg.query = Last(event.pre.history.burst)

\* The annotation a response itself echoes: the one the parse of it reached.
Echoed(merge) ==
    IF merge.ret \in {PARSER_NOERR, PARSER_NO_CANDIDATE} THEN merge.parser.m_annotation
    ELSE NULL

\* C3 (staleness, Google): a Google response whose echoed annotation is not
\* the normalized query at the time it is processed leaves the text and the
\* id of every cached candidate as they were, whatever the parse returned.
C3_GoogleStaleness ==
    (/\ event.op = "response"
     /\ cloud_source = GOOGLE
     /\ Echoed(event.merge) # NULL
     /\ Echoed(event.merge) # event.merge.text)
    => event.merge.after = event.merge.before

\* A stale Google answer with words has been processed while candidates were cached.
C3_Witness ==
    /\ event.op = "response"
    /\ cloud_source = GOOGLE
    /\ event.merge.ret = PARSER_NOERR
    /\ Echoed(event.merge) # event.merge.text
    /\ event.merge.before # <<>>
    /\ event.merge.after = event.merge.before

\* C4 as stated (last-input-wins for either provider): a response to a query
\* that is not the normalized query at the time it is processed never
\* changes the cached candidates.
C4_LastInputWins_Original ==
    (/\ event.op = "response"
     /\ event.msg.query # event.merge.text)
    => event.merge.after = event.merge.before

\* C4 as amended: with the Google provider, a response that comes with a
\* stream and echoes the query it was produced for changes the cached
\* candidates only if that query is the normalized query at the time it is
\* processed.
C4_LastInputWins ==
    (/\ event.op = "response"
     /\ cloud_source = GOOGLE
     /\ Echoed(event.merge) = event.msg.query
     /\ event.merge.after # event.merge.before)
    => event.msg.query = event.merge.text

\* Google has answered the query the editor still shows, echoing it, and the
\* answer has been written over the cached candidates.
C4_Witness ==
    /\ event.op = "response"
    /\ cloud_source = GOOGLE
    /\ Echoed(event.merge) = event.msg.query
    /\ event.msg.query = event.merge.text
    /\ event.merge.after # event.merge.before

\* C5 (superseded responses): when the callback of a cancelled request runs
\* without a stream, the cached candidates keep the text they had.
C5_SupersededUnseen ==
    (/\ event.op = "response"
     /\ event.msg.cancelled
     /\ event.stream = "null")
    => event.merge.after = event.merge.before

\* C6 (positional integrity): an accepted response with status Ok writes
\* word i over candidate i for as many as both have, leaves the others, and
\* keeps the number and the ids; the ids of the cached candidates are the
\* same before and after every timer and every response.
C6_PositionalIntegrity ==
    /\ (/\ event.op = "response"
        /\ event.merge.ret = PARSER_NOERR
        /\ Accepted(cloud_source, event.merge.parser.m_annotation, event.merge.text))
       => LET words == event.merge.parser.m_candidates
              before == event.merge.before
              after == event.merge.after
          IN  /\ Len(after) = Len(before)
              /\ \A i \in 1..Len(before) :
                    /\ after[i].m_candidate_id = before[i].m_candidate_id
                    /\ after[i].m_display_string =
                          IF i <= Len(words) THEN words[i]
                          ELSE before[i].m_display_string
    /\ event.op = "response" =>
          /\ Len(event.merge.after) = Len(event.merge.before)
          /\ \A i \in 1..Len(event.merge.before) :
                event.merge.after[i].m_candidate_id = event.merge.before[i].m_candidate_id
    /\ event.op \in {"timer", "response"} =>
          /\ Len(m_candidates) = Len(event.pre.m_candidates)
          /\ \A i \in 1..Len(m_candidates) :
                m_candidates[i].m_candidate_id = event.pre.m_candidates[i].m_candidate_id

\* An answer with one word has been written over two loading candidates.
C6_Witness ==
    /\ event.op = "response"
    /\ event.merge.ret = PARSER_NOERR
    /\ Len(event.merge.parser.m_candidates) = 1
    /\ Len(event.merge.before) = 2
    /\ event.merge.after[1].m_display_string = event.merge.parser.m_candidates[1]
    /\ event.merge.after[2].m_display_string = CANDIDATE_LOADING_TEXT_WITHOUT_PREFIX
    /\ event.merge.before[1].m_display_string = CANDIDATE_LOADING_TEXT_WITHOUT_PREFIX


\* Whether a trigger decision on these candidates, with this query and this
\* m_last_requested_pinyin, is a re-render of a query already requested.
IsReRender(candidates, query, last) ==
    /\ candidates # <<>>
    /\ Len(candidates[1].m_display_string) >= CLOUD_MINIMUM_UTF8_TRIGGER_LENGTH
    /\ query = last

\* C7 (idempotent re-render): a trigger decision on a non-empty list whose
\* best candidate has at least 2 code points, for the query that
\* m_last_requested_pinyin holds, returns FALSE, arms no timer, issues no
\* request, leaves the cached candidates and m_last_requested_pinyin as they
\* were, and puts one copy of each cached candidate, in order, before the
\* first candidate that is no n-best match; a second call on the same list
\* does the same.
C7_IdempotentReRender ==
    (/\ event.op = "processCandidates"
     /\ IsReRender(editor_candidates, event.pre.m_text, event.pre.m_last_requested_pinyin))
    => LET pos == FirstNonNBest(editor_candidates)
           n == Len(m_candidates)
       IN  /\ ~event.triggered
           /\ Steps(event.log, "arm") = <<>>
           /\ Steps(event.log, "issue") = <<>>
           /\ timers = event.pre.timers
           /\ m_source_event_id = event.pre.m_source_event_id
           /\ session = event.pre.session
           /\ m_message = event.pre.m_message
           /\ m_candidates = event.pre.m_candidates
           /\ m_last_requested_pinyin = event.pre.m_last_requested_pinyin
           /\ Len(lookup_candidates) = Len(editor_candidates) + n
           /\ \A i \in 1..(pos - 1) : lookup_candidates[i] = editor_candidates[i]
           /\ \A i \in 1..n :
                 /\ lookup_candidates[pos + i - 1].m_candidate_id = m_candidates[i].m_candidate_id
                 /\ lookup_candidates[pos + i - 1].m_candidate_type = CANDIDATE_CLOUD_INPUT
           /\ \A i \in pos..Len(editor_candidates) :
                 lookup_candidates[i + n] = editor_candidates[i]
           /\ \A again \in processCandidates(State, editor_candidates) :
                 /\ ~again.ret
                 /\ again.candidates = lookup_candidates
                 /\ again.s.m_candidates = m_candidates
                 /\ again.s.m_last_requested_pinyin = m_last_requested_pinyin
                 /\ again.s.timers = timers
                 /\ again.s.session = session

\* The query of a request already issued has been redrawn from the cache.
C7_Witness ==
    /\ event.op = "processCandidates"
    /\ IsReRender(editor_candidates, event.pre.m_text, event.pre.m_last_requested_pinyin)
    /\ next_message > 1
    /\ m_candidates # <<>>
    /\ Len(lookup_candidates) = Len(editor_candidates) + Len(m_candidates)

\* The display strings of the transient markers, with the cloud prefix.
TransientMarkers ==
    {CANDIDATE_PENDING_TEXT, CANDIDATE_LOADING_TEXT, CANDIDATE_NO_CANDIDATE_TEXT,
     CANDIDATE_INVALID_DATA_TEXT, CANDIDATE_BAD_FORMAT_TEXT}

\* C8 (inert selection): selecting a cloud entry that shows a transient
\* marker (pending, loading, no-candidate, invalid-data or bad-format, with
\* the cloud prefix) returns "already handled" and commits nothing.
C8_InertSelection ==
    (/\ event.op = "select"
     /\ event.enhanced.m_display_string \in TransientMarkers)
    => /\ event.ret = SELECT_CANDIDATE_ALREADY_HANDLED
       /\ event.selected = event.enhanced

\* The cached candidates with the id of the entry.
WithId(cached, enhanced) ==
    {i \in 1..Len(cached) : cached[i].m_candidate_id = enhanced.m_candidate_id}

\* C9 (selection commit): selecting a cloud entry that shows no transient
\* marker and has the id of a cached candidate returns commit and
\* modify-in-place, and the entry then has the text of that cached
\* candidate; without a cached candidate of that id the selection is
\* "already handled"; the cached candidates are not changed.
C9_SelectionCommit ==
    (/\ event.op = "select"
     /\ event.enhanced.m_display_string \notin TransientMarkers)
    => /\ m_candidates = event.pre.m_candidates
       /\ WithId(m_candidates, event.enhanced) # {} =>
             /\ event.ret = SELECT_CANDIDATE_COMMIT \cup SELECT_CANDIDATE_MODIFY_IN_PLACE
             /\ \E i \in WithId(m_candidates, event.enhanced) :
                   event.selected.m_display_string = m_candidates[i].m_display_string
             /\ event.selected.m_candidate_id = event.enhanced.m_candidate_id
       /\ WithId(m_candidates, event.enhanced) = {} =>
             event.ret = SELECT_CANDIDATE_ALREADY_HANDLED

\* An entry that showed a word of the provider has been selected and committed.
C9_Witness ==
    /\ event.op = "select"
    /\ event.enhanced.m_display_string =
          CANDIDATE_CLOUD_PREFIX \o Word(m_last_requested_pinyin, 1)
    /\ event.selected.m_display_string = Word(m_last_requested_pinyin, 1)
    /\ event.ret = SELECT_CANDIDATE_COMMIT \cup SELECT_CANDIDATE_MODIFY_IN_PLACE

\* The message issued last, if the session still holds it.
NewestMessages(messages, next) == {msg \in messages : msg.id + 1 = next}

\* C10 (lastRequestedQuery at once), of an object that has not been
\* deleted: the timer that issues a request sets
\* m_last_requested_pinyin to its query in the same step; while the request
\* issued last is in flight and no trigger decision has cleared it since,
\* m_last_requested_pinyin is the query of that request; and a trigger
\* decision for that query during the round trip re-renders and arms no timer.
C10_LastRequestedAtOnce ==
    ~deleted =>
        /\ \A msg \in NewestMessages(session, next_message) :
              ~history.cleared => m_last_requested_pinyin = msg.query
        /\ (event.op = "timer" /\ Steps(event.log, "clear") = <<>>) =>
              m_last_requested_pinyin = event.data.request_str
        /\ event.op = "processCandidates" =>
              \A msg \in NewestMessages(event.pre.session, next_message) :
                  (/\ ~event.pre.history.cleared
                   /\ IsReRender(editor_candidates, event.pre.m_text, msg.query))
                  => /\ ~event.triggered
                     /\ Steps(event.log, "rerender") = <<msg.query>>
                     /\ Steps(event.log, "arm") = <<>>
                     /\ timers = event.pre.timers

\* While a request is in flight, unanswered, a trigger decision for its query
\* has re-rendered.
C10_Witness ==
    /\ event.op = "processCandidates"
    /\ \E msg \in NewestMessages(session, next_message) :
          /\ ~msg.cancelled
          /\ m_last_requested_pinyin = msg.query
          /\ m_text = msg.query
    /\ Steps(event.log, "rerender") # <<>>
    /\ Steps(event.log, "arm") = <<>>


\* The glyph the spec maps a non-Ok status to.
GlyphOf(ret_code) ==
    CASE ret_code = PARSER_NO_CANDIDATE -> CANDIDATE_NO_CANDIDATE_TEXT_WITHOUT_PREFIX
      [] ret_code = PARSER_INVALID_DATA -> CANDIDATE_INVALID_DATA_TEXT_WITHOUT_PREFIX
      [] ret_code = PARSER_BAD_FORMAT -> CANDIDATE_BAD_FORMAT_TEXT_WITHOUT_PREFIX
      [] ret_code = PARSER_NETWORK_ERROR -> CANDIDATE_INVALID_DATA_TEXT_WITHOUT_PREFIX
      [] OTHER -> <<>>

\* Whether every candidate of the list shows this text.
AllShow(candidates, text) ==
    \A i \in 1..Len(candidates) : candidates[i].m_display_string = text

\* C11 (every error is mapped to a glyph): when a response parses to
\* NoCandidate, InvalidData or BadFormat and is for the current input (Baidu:
\* always; Google: it echoes the current query), every cached candidate shows
\* the glyph of that status after processCloudResponse, also for the first
\* response the parser ever parsed.
C11_ErrorGlyph ==
    (/\ event.op = "response"
     /\ event.merge.ret \in {PARSER_NO_CANDIDATE, PARSER_INVALID_DATA, PARSER_BAD_FORMAT}
     /\ \/ cloud_source = BAIDU
        \/ Echoed(event.merge) = event.merge.text)
    => AllShow(event.merge.after, GlyphOf(event.merge.ret))


\* C12 (NetworkError outcome): when a response completes with no byte stream,
\* every cached candidate shows the invalid-data glyph at the end of
\* processCloudResponse, for either provider and whatever the parser parsed
\* earlier; in particular no candidate is left with an empty text.
C12_NetworkErrorGlyph ==
    (/\ event.op = "response"
     /\ event.stream = "null")
    => /\ event.merge.ret = PARSER_NETWORK_ERROR
       /\ AllShow(event.merge.after, CANDIDATE_INVALID_DATA_TEXT_WITHOUT_PREFIX)


\* C13 (parser reuse): every parse starts from a cleared parser, so what the
\* parser holds afterwards depends on the payload of that call alone: after a
\* parse that returns NetworkError, BadFormat or InvalidData (each returned
\* before the annotation is reached) the parser has no annotation and no
\* word, whatever an earlier parse of the same parser produced.
C13_ParserReuse ==
    (/\ event.op = "response"
     /\ event.merge.ret \in {PARSER_NETWORK_ERROR, PARSER_BAD_FORMAT, PARSER_INVALID_DATA})
    => /\ event.merge.parser.m_annotation = NULL
       /\ event.merge.parser.m_candidates = <<>>


\* C14 (synchronous variant): cloudSyncRequest writes the decoded words into
\* the list the caller hands over and leaves the cached candidates (text, ids
\* and number), m_last_requested_pinyin, m_message and the pending timer as
\* they were.
C14_SyncRequestFrame ==
    event.op = "sync" =>
        /\ m_candidates = event.pre.m_candidates
        /\ m_last_requested_pinyin = event.pre.m_last_requested_pinyin
        /\ m_message = event.pre.m_message
        /\ m_source_event_id = event.pre.m_source_event_id
        /\ timers = event.pre.timers
        /\ event.merge.ret = PARSER_NOERR =>
              \A i \in 1..Len(event.merge.parser.m_candidates) :
                  \E j \in 1..Len(event.candidates) :
                      event.candidates[j].m_display_string = event.merge.parser.m_candidates[i]


\* A lookup episode is outstanding for the current query: the pending timer
\* holds it, or a message that has not been cancelled carries it.
Outstanding ==
    \/ \E data \in timers : data.event_id = m_source_event_id /\ data.request_str = m_text
    \/ \E msg \in ActiveMessages : msg.query = m_text

\* The list has exactly number cloud entries, one after the other from
\* position pos on, with the ids 0 .. number - 1 in this order.
CloudEntriesAt(candidates, pos, number) ==
    /\ {i \in 1..Len(candidates) : candidates[i].m_candidate_type = CANDIDATE_CLOUD_INPUT}
           = pos..(pos + number - 1)
    /\ \A i \in 1..number :
           pos + i - 1 <= Len(candidates) => candidates[pos + i - 1].m_candidate_id = i - 1

\* C15 (placeholder count), of an object that has not been deleted: in
\* every state where a lookup episode is
\* outstanding for the current query, the cached candidates are
\* cloud_candidates_number many and the list processCandidates makes of the
\* editor's own candidates holds exactly that many cloud entries, contiguous
\* at the first position after the n-best candidates, with ids 0, 1, ... in
\* this order.
C15_PlaceholderCount ==
    (~deleted /\ Outstanding) =>
        /\ Len(m_candidates) = cloud_candidates_number
        /\ \A r \in processCandidates(State, editor_candidates) :
               CloudEntriesAt(r.candidates, FirstNonNBest(editor_candidates),
                              cloud_candidates_number)


\* Whether the node is an array with a string at the 0-based index.
HasStringAt(node, index) ==
    /\ node.k = "array"
    /\ index < Len(node.a)
    /\ node.a[index + 1].k = "string"

\* Whether the node is an array with an array at the 0-based index.
HasArrayAt(node, index) ==
    /\ node.k = "array"
    /\ index < Len(node.a)
    /\ node.a[index + 1].k = "array"

\* The strings of an array of strings, in order.
StringsOf(array) == [i \in 1..Len(array.a) |-> array.a[i].s]

\* The status a Google payload stands for by its shape.
GoogleStatus(root) ==
    IF root.k # "array" THEN PARSER_BAD_FORMAT
    ELSE IF Len(root.a) <= 1 THEN PARSER_INVALID_DATA
    ELSE IF root.a[1] # JString(<<"SUCCESS">>) THEN PARSER_INVALID_DATA
    ELSE IF ~HasArrayAt(root, 1) \/ root.a[2].a = <<>> THEN PARSER_INVALID_DATA
    ELSE IF ~HasStringAt(root.a[2].a[1], 0) THEN PARSER_INVALID_DATA
    ELSE IF ~HasArrayAt(root.a[2].a[1], 1) THEN PARSER_INVALID_DATA
    ELSE IF root.a[2].a[1].a[2].a = <<>> THEN PARSER_NO_CANDIDATE
    ELSE PARSER_NOERR

\* C16 (Google classification): parse returns BadFormat for a root that is
\* no array; InvalidData for a root of length <= 1, an element 0 other than
\* the string SUCCESS, an empty element 1, a first result without a string at
\* index 0 or without an array at index 1; NoCandidate for an empty candidate
\* array; and otherwise Ok, with the string at index 0 as the annotation and
\* the candidate strings in order as the words.
C16_GoogleClassification ==
    (event.op \in {"parse", "ended"} /\ cloud_source = GOOGLE) =>
        /\ event.op = "parse"
        /\ event.merge.ret = GoogleStatus(event.root)
        /\ event.merge.ret = PARSER_NOERR =>
              /\ event.merge.parser.m_annotation = event.root.a[2].a[1].a[1].s
              /\ event.merge.parser.m_candidates = StringsOf(event.root.a[2].a[1].a[2])


\* The members of an object with this name.
Members(object, name) == {object.a[i] : i \in {j \in 1..Len(object.n) : object.n[j] = name}}

NotAQuote(c) == c # "'"

\* The word a Baidu candidate sub-array stands for.
BaiduWordOf(candidate) ==
    IF candidate.a = <<>> THEN CANDIDATE_INVALID_DATA_TEXT_WITHOUT_PREFIX
    ELSE candidate.a[1].s

\* The status a Baidu payload stands for by its shape.
BaiduStatus(root) ==
    IF root.k # "object" THEN PARSER_BAD_FORMAT
    ELSE IF Members(root, "status") # {JString(<<"T">>)} THEN PARSER_INVALID_DATA
    ELSE IF Members(root, "result") = {} THEN PARSER_INVALID_DATA
    ELSE LET result == CHOOSE r \in Members(root, "result") : TRUE
         IN  IF result.k # "array" \/ Len(result.a) < 2 THEN PARSER_INVALID_DATA
             ELSE IF ~HasStringAt(result, 1) THEN PARSER_INVALID_DATA
             ELSE IF result.a[1].a = <<>> THEN PARSER_NO_CANDIDATE
             ELSE PARSER_NOERR

\* C17 (Baidu classification): parse returns BadFormat for a root that is no
\* object; InvalidData when status is missing or not T, result is missing or
\* has fewer than two elements, or element 1 is no string; NoCandidate for an
\* empty candidate array; and otherwise Ok, with element 1 without its quotes
\* as the annotation and one word per candidate sub-array in order, the
\* invalid-data glyph for an empty sub-array.
C17_BaiduClassification ==
    (event.op \in {"parse", "ended"} /\ cloud_source = BAIDU) =>
        /\ event.op = "parse"
        /\ event.merge.ret = BaiduStatus(event.root)
        /\ event.merge.ret = PARSER_NOERR =>
              LET result == CHOOSE r \in Members(event.root, "result") : TRUE
              IN  /\ event.merge.parser.m_annotation = SelectSeq(result.a[2].s, NotAQuote)
                  /\ event.merge.parser.m_candidates =
                         [i \in 1..Len(result.a[1].a) |-> BaiduWordOf(result.a[1].a[i])]

\* C18 (handle release), of an object that has not been deleted: after the
\* callback of the current request has run,
\* with a stream or without one and whatever the length of m_text, m_message
\* is NULL; m_message never refers to a message that has completed.
C18_HandleRelease ==
    ~deleted =>
        /\ (event.op = "response" /\ event.msg.id = event.pre.m_message) => m_message = 0
        /\ m_message # 0 => \E msg \in session : msg.id = m_message


\* The timer data a removed timer held: a token handed out before that is not
\* the remembered one, with the query of its arming.
StaleTimerData ==
    {[event_id |-> id, request_str |-> q] :
         id \in (1..(next_source_id - 1)) \ {m_source_event_id}, q \in Queries}

\* The handler left the fields of the object and the session as they are in s.
Untouched(u, s) ==
    /\ u.m_source_event_id = s.m_source_event_id
    /\ u.m_last_requested_pinyin = s.m_last_requested_pinyin
    /\ u.m_candidates = s.m_candidates
    /\ u.m_message = s.m_message
    /\ u.session = s.session
    /\ u.timers = s.timers
    /\ u.lookup_candidates = s.lookup_candidates
    /\ u.next_message = s.next_message
    /\ u.log = <<>>

\* C19 (timer token guard): the callback of a timer issues a request only
\* when the token of its data is m_source_event_id; it then resets
\* m_source_event_id and issues the request with the query of its data, the
\* one captured at arming; with another token it changes nothing. Arming
\* removes the pending timer, so at most one timer is pending, the one
\* m_source_event_id names. The members are those of an object that has not
\* been deleted.
C19_TimerTokenGuard ==
    /\ Cardinality(timers) <= 1
    /\ ~deleted =>
          /\ event.op = "timer" =>
                /\ event.data.event_id = event.pre.m_source_event_id
                /\ m_source_event_id # event.data.event_id
                /\ m_source_event_id = 0 \/ Steps(event.log, "arm") # <<>>
                /\ Steps(event.log, "issue") = <<event.data.request_str>>
                /\ \E msg \in session :
                      /\ msg.id = event.pre.next_message
                      /\ msg.query = event.data.request_str
          /\ \A data \in StaleTimerData :
                \A u \in delayedCloudAsyncRequestCallBack(State, data) : Untouched(u, State)
          /\ \A data \in timers : data.event_id = m_source_event_id
          /\ m_source_event_id # 0 => timers # {}

\* A timer armed for one query has fired after the text became another: the
\* request carries the query of the arming, and a stale token is at hand.
C19_Witness ==
    /\ event.op = "timer"
    /\ event.data.request_str = QueryA
    /\ event.pre.m_text = <<"n", "i">>
    /\ \E msg \in session : msg.id = event.pre.next_message /\ msg.query = QueryA
    /\ m_source_event_id = 0
    /\ StaleTimerData # {}


\* C20 (short input ends the episode): when processCandidates is given a list
\* whose best candidate has fewer than CLOUD_MINIMUM_UTF8_TRIGGER_LENGTH code
\* points, m_last_requested_pinyin becomes empty and no timer stays armed, so
\* that no request follows for the query that was pending; given an empty
\* list it changes nothing.
C20_ShortInputEndsEpisode ==
    /\ (event.op = "processCandidates" /\ Steps(event.log, "clear") # <<>>) =>
          /\ m_last_requested_pinyin = <<>>
          /\ m_source_event_id = 0
          /\ timers = {}
    /\ (event.op = "processCandidates" /\ editor_candidates = <<>>) =>
          /\ event.log = <<>>
          /\ ~event.triggered
          /\ lookup_candidates = <<>>
          /\ m_last_requested_pinyin = event.pre.m_last_requested_pinyin
          /\ m_candidates = event.pre.m_candidates
          /\ m_source_event_id = event.pre.m_source_event_id
          /\ timers = event.pre.timers
          /\ m_message = event.pre.m_message
          /\ session = event.pre.session

\* The trigger decision was given a list whose best candidate is long enough,
\* for a query that is not m_last_requested_pinyin, with an entry at the
\* insertion point that is no cloud candidate.
IsNewQuery(candidates, query, last) ==
    /\ candidates # <<>>
    /\ Len(candidates[1].m_display_string) >= CLOUD_MINIMUM_UTF8_TRIGGER_LENGTH
    /\ query # last
    /\ FirstNonNBest(candidates) <= Len(candidates)
    /\ candidates[FirstNonNBest(candidates)].m_candidate_type # CANDIDATE_CLOUD_INPUT

\* C21 (new-query seeding): for a query other than m_last_requested_pinyin and
\* an entry at the insertion point that is no cloud candidate, processCandidates
\* replaces the cached candidates by cloud_candidates_number placeholders with
\* the ids 0, 1, ... and the pending text, inserts them right before the first
\* candidate that is no n-best match, keeping the others in their order, arms
\* the timer with the query, leaves m_last_requested_pinyin and m_message as
\* they are, and returns TRUE.
C21_NewQuerySeeding ==
    (/\ event.op = "processCandidates"
     /\ IsNewQuery(editor_candidates, event.pre.m_text, event.pre.m_last_requested_pinyin))
    => LET pos == FirstNonNBest(editor_candidates)
       IN  /\ event.triggered
           /\ Len(m_candidates) = cloud_candidates_number
           /\ \A i \in 1..Len(m_candidates) :
                  /\ m_candidates[i].m_candidate_id = i - 1
                  /\ m_candidates[i].m_candidate_type = CANDIDATE_CLOUD_INPUT
                  /\ m_candidates[i].m_display_string = CANDIDATE_PENDING_TEXT
           /\ event.candidates = SubSeq(editor_candidates, 1, pos - 1)
                                 \o m_candidates
                                 \o SubSeq(editor_candidates, pos, Len(editor_candidates))
           /\ timers = {[event_id |-> m_source_event_id, request_str |-> event.pre.m_text]}
           /\ m_source_event_id \notin {0, event.pre.m_source_event_id}
           /\ m_last_requested_pinyin = event.pre.m_last_requested_pinyin
           /\ m_message = event.pre.m_message

\* A new query has been typed while the answered candidates of another query
\* were cached and its message was still in flight: the cached candidates
\* are placeholders again, between the n-best matches and the rest.
C21_Witness ==
    /\ event.op = "processCandidates"
    /\ IsNewQuery(editor_candidates, event.pre.m_text, event.pre.m_last_requested_pinyin)
    /\ event.pre.m_last_requested_pinyin = QueryA
    /\ m_text = QueryB
    /\ FirstNonNBest(editor_candidates) = 3
    /\ event.pre.m_message # 0
    /\ event.pre.m_source_event_id = 0
    /\ \E i \in 1..Len(event.pre.m_candidates) :
           event.pre.m_candidates[i].m_display_string # CANDIDATE_PENDING_TEXT
    /\ event.triggered

\* C22 (bounds safety): processCandidates copies the candidate at the
\* insertion point only when that is a position of the list; for a list of
\* n-best matches only and a query other than m_last_requested_pinyin it
\* reads no element past the end.
C22_BoundsSafety ==
    \A i \in 1..Len(event.log) :
        event.log[i][1] = "testCan" => event.log[i][2] <= Len(editor_candidates)

\* How many times the cloud prefix occurs in a display string.
PrefixCount(text) ==
    Cardinality({i \in 1..Len(text) : SubSeq(text, i, i + Len(CANDIDATE_CLOUD_PREFIX) - 1)
                                          = CANDIDATE_CLOUD_PREFIX})

\* C23 (single cloud marker): whenever processCandidates has inserted cloud
\* candidates into the visible list, as placeholders or from the cached
\* candidates, each of them carries the cloud prefix exactly once.
C23_SingleCloudMarker ==
    (\E i \in 1..Len(event.log) : event.log[i][1] \in {"seed", "rerender"}) =>
        \A i \in 1..Len(lookup_candidates) :
            lookup_candidates[i].m_candidate_type = CANDIDATE_CLOUD_INPUT =>
                PrefixCount(lookup_candidates[i].m_display_string) = 1

\* The markers of a lookup that has not come to an end, as the cached
\* candidates hold them.
UnfinishedTexts == {CANDIDATE_PENDING_TEXT, CANDIDATE_LOADING_TEXT_WITHOUT_PREFIX}

\* The user has stopped at a query long enough to trigger and the timer has
\* fired: the request for the text as it stands has been issued.
Stopped ==
    /\ next_message > 1
    /\ m_text \in Queries
    /\ m_last_requested_pinyin = m_text

\* No cached candidate shows the pending or the loading marker.
Settled ==
    \A i \in 1..Len(m_candidates) : m_candidates[i].m_display_string \notin UnfinishedTexts

\* C24 (progress): once the user has stopped typing at a query long enough,
\* and given that the armed timer fires and the session completes every
\* message with some response, eventually no cached candidate shows the
\* pending or the loading marker, without a further keystroke.
C24_Progress == Stopped ~> Settled

=============================================================================
